---- MODULE Spec2Model ----
(***************************************************************************)
(* Model of the axis crate: the Effect transforms Step and Lerp            *)
(* (src/src/effects.rs), the inline type-erased handle DynEffect and the   *)
(* Axis state machine (src/src/lib.rs).                                    *)
(*                                                                         *)
(* u16 values keep their width.  f32 values are modelled bit-exactly as    *)
(* sign * mantissa * 2^exponent with a 24-bit mantissa and IEEE-754        *)
(* round-to-nearest-even; every intermediate stays below 2^31.             *)
(***************************************************************************)
EXTENDS Integers, Sequences, FiniteSets, TLC

(***************************************************************************)
(* Integer helpers                                                         *)
(***************************************************************************)
Pow2(n) == 2^n

Max(a, b) == IF a >= b THEN a ELSE b

Min(a, b) == IF a <= b THEN a ELSE b

\* number of significant bits of x, for x < 2^8 and for x < 2^31
BitLen8(x) ==
    IF x < 16
    THEN (IF x < 4 THEN (IF x < 2 THEN x ELSE 2) ELSE (IF x < 8 THEN 3 ELSE 4))
    ELSE (IF x < 64 THEN (IF x < 32 THEN 5 ELSE 6) ELSE (IF x < 128 THEN 7 ELSE 8))

BitLen(x) ==
    IF x < 65536
    THEN (IF x < 256 THEN BitLen8(x) ELSE 8 + BitLen8(x \div 256))
    ELSE (IF x < 16777216 THEN 16 + BitLen8(x \div 65536) ELSE 24 + BitLen8(x \div 16777216))

\* `x as i16` for a u16 x: two's complement reinterpretation
AsI16(x) == IF x >= Pow2(15) THEN x - Pow2(16) ELSE x

\* whether a mathematical result fits i16 / u16
FitsI16(d) == d >= -Pow2(15) /\ d < Pow2(15)

FitsU16(d) == d >= 0 /\ d < Pow2(16)

\* the wrapped (release build) result of an i16 operation
WrapI16(d) == ((d + Pow2(15)) % Pow2(16)) - Pow2(15)

\* the wrapped (release build) result of a u16 operation
WrapU16(d) == d % Pow2(16)

\* u16::saturating_sub
SaturatingSub(a, b) == IF a >= b THEN a - b ELSE 0

(***************************************************************************)
(* f32: [k, s, m, e].  A finite value is s * m * 2^e, with m = 0 for zero  *)
(* and 2^23 <= m < 2^24 otherwise; a subnormal is kept with its mantissa   *)
(* shifted up (e < -149).  The sign of zero is not kept: no operation of   *)
(* the program tells -0.0 from +0.0.  Operators that bind an intermediate  *)
(* value take it as a parameter.                                           *)
(***************************************************************************)
F32Zero == [k |-> "fin", s |-> 1, m |-> 0, e |-> 0]

F32NaN == [k |-> "nan", s |-> 1, m |-> 0, e |-> 0]

F32Inf(s) == [k |-> "inf", s |-> s, m |-> 0, e |-> 0]

F32Neg(a) == IF a.k = "nan" \/ (a.k = "fin" /\ a.m = 0) THEN a ELSE [a EXCEPT !.s = -a.s]

\* x / 2^d rounded to nearest, ties to even (x < 2^30, d >= 1)
ShiftRNE(x, d) ==
    IF d > 30 THEN 0
    ELSE IF x % Pow2(d) > Pow2(d - 1)
            \/ (x % Pow2(d) = Pow2(d - 1) /\ (x \div Pow2(d)) % 2 = 1)
         THEN (x \div Pow2(d)) + 1
         ELSE x \div Pow2(d)

\* s * q * 2^et with q of n bits (n <= 25), as a value
PackN(s, q, et, n) ==
    IF q = 0 THEN F32Zero
    ELSE IF et + n - 1 > 127 THEN F32Inf(s)
    ELSE IF n = 25 THEN [k |-> "fin", s |-> s, m |-> q \div 2, e |-> et + 1]
    ELSE [k |-> "fin", s |-> s, m |-> q * Pow2(24 - n), e |-> et - (24 - n)]

PackQ(s, q, et) == PackN(s, q, et, BitLen(q))

\* s * R * 2^e rounded to a multiple of 2^et
RoundAt(s, R, e, et) ==
    PackQ(s, IF et <= e THEN R * Pow2(e - et) ELSE ShiftRNE(R, et - e), et)

\* the f32 nearest to s * R * 2^e (R < 2^30; an odd R may stand for any
\* value strictly between R - 1 and R + 1 once two or more bits are dropped)
RoundPack(s, R, e) == RoundAt(s, R, e, Max(e + BitLen(R) - 24, -149))

\* `x as f32` for a u16 x (exact)
F32FromU16(x) == RoundPack(1, x, 0)

\* x >> d keeping a sticky lowest bit
StickyShift(x, d) ==
    IF d = 0 THEN x
    ELSE IF d > 30 THEN 1
    ELSE IF x % Pow2(d) # 0 /\ (x \div Pow2(d)) % 2 = 0
         THEN (x \div Pow2(d)) + 1
         ELSE x \div Pow2(d)

\* |big| >= |sml| > 0
F32AddOrdered(big, sml) ==
    RoundPack(big.s,
              IF big.s = sml.s
              THEN big.m * 8 + StickyShift(sml.m * 8, big.e - sml.e)
              ELSE big.m * 8 - StickyShift(sml.m * 8, big.e - sml.e),
              big.e - 3)

F32AddFin(a, b) ==
    IF a.m = 0 THEN b
    ELSE IF b.m = 0 THEN a
    ELSE IF a.e > b.e \/ (a.e = b.e /\ a.m >= b.m)
         THEN F32AddOrdered(a, b)
         ELSE F32AddOrdered(b, a)

\* a + b
F32Add(a, b) ==
    IF a.k = "nan" \/ b.k = "nan" THEN F32NaN
    ELSE IF a.k = "inf" /\ b.k = "inf" THEN (IF a.s = b.s THEN a ELSE F32NaN)
    ELSE IF a.k = "inf" THEN a
    ELSE IF b.k = "inf" THEN b
    ELSE F32AddFin(a, b)

\* a - b
F32Sub(a, b) == F32Add(a, F32Neg(b))

\* hi * 2^24 + c1 * 2^12 + c0 (c1, c0 < 2^12), cut to hi, two more bits
\* and a sticky bit
MulCut(hi, c1, c0) ==
    hi * 8 + 2 * (c1 \div 1024) + (IF c1 % 1024 # 0 \/ c0 # 0 THEN 1 ELSE 0)

\* hh * 2^24 + mm * 2^12 + ll, carries propagated
MulCarry(hh, mm, ll) ==
    MulCut(hh + ((mm + (ll \div 4096)) \div 4096), (mm + (ll \div 4096)) % 4096, ll % 4096)

\* the 48-bit product of two 24-bit mantissas, by 12-bit limbs
MulLimbs(ah, al, bh, bl) == MulCarry(ah * bh, ah * bl + al * bh, al * bl)

F32MulFin(a, b) ==
    RoundPack(a.s * b.s,
              MulLimbs(a.m \div 4096, a.m % 4096, b.m \div 4096, b.m % 4096),
              a.e + b.e + 21)

\* a * b
F32Mul(a, b) ==
    IF a.k = "nan" \/ b.k = "nan" THEN F32NaN
    ELSE IF a.k = "inf" \/ b.k = "inf"
         THEN (IF (a.k = "fin" /\ a.m = 0) \/ (b.k = "fin" /\ b.m = 0)
               THEN F32NaN ELSE F32Inf(a.s * b.s))
    ELSE IF a.m = 0 \/ b.m = 0 THEN F32Zero
    ELSE F32MulFin(a, b)

\* k further quotient bits (k <= 7) of a long division by b < 2^24, from
\* qr = <<quotient, remainder>>
DivBits(qr, b, k) ==
    << qr[1] * Pow2(k) + ((qr[2] * Pow2(k)) \div b), (qr[2] * Pow2(k)) % b >>

\* the quotient with a sticky lowest bit
DivCut(qr) == 2 * qr[1] + (IF qr[2] # 0 THEN 1 ELSE 0)

F32DivFin(a, b) ==
    RoundPack(a.s * b.s,
              DivCut(DivBits(DivBits(DivBits(DivBits(<<a.m \div b.m, a.m % b.m>>,
                                                     b.m, 7), b.m, 7), b.m, 7), b.m, 5)),
              a.e - b.e - 27)

\* a / b
F32Div(a, b) ==
    IF a.k = "nan" \/ b.k = "nan" THEN F32NaN
    ELSE IF a.k = "inf" THEN (IF b.k = "inf" THEN F32NaN ELSE F32Inf(a.s * b.s))
    ELSE IF b.k = "inf" THEN F32Zero
    ELSE IF b.m = 0 THEN (IF a.m = 0 THEN F32NaN ELSE F32Inf(a.s * b.s))
    ELSE IF a.m = 0 THEN F32Zero
    ELSE F32DivFin(a, b)

\* `x.floor() as u16`: floor, then the saturating float-to-int cast
\* (NaN becomes 0)
F32FloorAsU16(a) ==
    IF a.k = "nan" THEN 0
    ELSE IF a.k = "inf" THEN (IF a.s = 1 THEN Pow2(16) - 1 ELSE 0)
    ELSE IF a.s = -1 \/ a.m = 0 THEN 0
    ELSE IF a.e >= 0 THEN Pow2(16) - 1
    ELSE IF a.e < -24 THEN 0
    ELSE Min(a.m \div Pow2(-a.e), Pow2(16) - 1)

(***************************************************************************)
(* In-memory representation: little-endian bytes                           *)
(***************************************************************************)
\* src/src/lib.rs, MAX_EFFECT_SIZE
MAX_EFFECT_SIZE == 16

\* a byte of MaybeUninit::uninit() that nothing has written
Uninit == -1

U16Bytes(x) == <<x % 256, x \div 256>>

U16FromBytes(b) == b[1] + 256 * b[2]

\* IEEE-754 binary32: sign bit, 8-bit biased exponent, 23-bit fraction
F32BiasedExp(a) ==
    IF a.k # "fin" THEN 255
    ELSE IF a.m = 0 \/ a.e < -149 THEN 0
    ELSE a.e + 150

F32Fraction(a) ==
    IF a.k = "nan" THEN Pow2(22)
    ELSE IF a.k = "inf" \/ a.m = 0 THEN 0
    ELSE IF a.e < -149 THEN a.m \div Pow2(-149 - a.e)
    ELSE a.m - Pow2(23)

F32Encode(s, be, fr) ==
    << fr % 256, (fr \div 256) % 256, (be % 2) * 128 + (fr \div 65536), s * 128 + (be \div 2) >>

F32Bytes(a) == F32Encode(IF a.s = -1 THEN 1 ELSE 0, F32BiasedExp(a), F32Fraction(a))

F32Decode(s, be, fr) ==
    IF be = 255 THEN (IF fr = 0 THEN F32Inf(s) ELSE F32NaN)
    ELSE IF be = 0 THEN RoundPack(s, fr, -149)
    ELSE [k |-> "fin", s |-> s, m |-> fr + Pow2(23), e |-> be - 150]

F32FromBytes(b) ==
    F32Decode(IF b[4] >= 128 THEN -1 ELSE 1,
              (b[3] \div 128) + 2 * (b[4] % 128),
              b[1] + 256 * b[2] + 65536 * (b[3] % 128))

(***************************************************************************)
(* src/src/effects.rs: Step                                                *)
(***************************************************************************)
Step_new(sensivity) == [type |-> "Step", sensivity |-> sensivity, old_value |-> 0]

\* i16::abs of an in-range d; i16::MIN stays i16::MIN where abs wraps
AbsI16(d) == IF d < 0 /\ d # -Pow2(15) THEN -d ELSE d

\* (value as i16 - old as i16).abs() >= threshold as i16, as the build
\* computes it: [panic, accept].  oc: the build has overflow checks (debug
\* profile), so an overflowing `-` or `abs` panics; without them both wrap.
StepCompare(value, old, threshold, oc) ==
    [panic |-> oc /\ (~FitsI16(AsI16(value) - AsI16(old))
                      \/ WrapI16(AsI16(value) - AsI16(old)) = -Pow2(15)),
     accept |-> AbsI16(WrapI16(AsI16(value) - AsI16(old))) >= AsI16(threshold)]

\* the two arms of the comparison, on the field that holds the baseline
StepAccept(self, value, c) ==
    IF c.panic THEN [self |-> self, out |-> 0, panic |-> TRUE]
    ELSE IF c.accept
         THEN [self |-> [self EXCEPT !.old_value = value], out |-> value, panic |-> FALSE]
         ELSE [self |-> self, out |-> self.old_value, panic |-> FALSE]

\* Effect::update for Step: [self, out, panic]
Step_update(self, value, oc) ==
    StepAccept(self, value, StepCompare(value, self.old_value, self.sensivity, oc))

(***************************************************************************)
(* src/src/effects.rs: Lerp                                                *)
(***************************************************************************)
None == [some |-> FALSE, v |-> F32Zero]

Some(x) == [some |-> TRUE, v |-> x]

Lerp_new(factor) == [type |-> "Lerp", smoothed_value |-> None, lerp_factor |-> factor]

\* a Lerp that returns the blend but keeps no smoothed value
LerpStoreForgets(self, new_value) ==
    [self |-> self, out |-> F32FloorAsU16(new_value), panic |-> FALSE]

\* self.smoothed_value = Some(new_value); new_value.floor() as u16
LerpStore(self, new_value) ==
    [self |-> [self EXCEPT !.smoothed_value = Some(new_value)],
     out |-> F32FloorAsU16(new_value),
     panic |-> FALSE]

\* sv + (value_f32 - sv) * self.lerp_factor
LerpBlend(self, value_f32, sv) ==
    LerpStore(self, F32Add(sv, F32Mul(F32Sub(value_f32, sv), self.lerp_factor)))

\* a Lerp that starts from 0.0 when it has no smoothed value
LerpSeedZero(self, value_f32) ==
    LerpBlend(self, value_f32,
              IF self.smoothed_value.some THEN self.smoothed_value.v ELSE F32Zero)

\* let sv = self.smoothed_value.unwrap_or(value_f32)
LerpSeed(self, value_f32) ==
    LerpBlend(self, value_f32,
              IF self.smoothed_value.some THEN self.smoothed_value.v ELSE value_f32)

\* Effect::update for Lerp: [self, out, panic]
Lerp_update(self, value) == LerpSeed(self, F32FromU16(value))

\* an Effect of the caller's own: struct PadN { pad: [u8; N] } whose update
\* returns its input; N is part of the type
PadSize(type) ==
    CASE type = "Pad0" -> 0
      [] type = "Pad16" -> 16
      [] type = "Pad17" -> 17
      [] OTHER -> 32

Pad_new(type) == [type |-> type, pad |-> [i \in 1 .. PadSize(type) |-> 0]]

Pad_update(self, input) == [self |-> self, out |-> input, panic |-> FALSE]

\* <T as Effect>::update, statically dispatched on the concrete type
Effect_update(t, input, oc) ==
    IF t.type = "Step" THEN Step_update(t, input, oc)
    ELSE IF t.type = "Lerp" THEN Lerp_update(t, input)
    ELSE Pad_update(t, input)

(***************************************************************************)
(* src/src/lib.rs: DynEffect                                               *)
(***************************************************************************)
\* core::mem::size_of::<T>()
SizeOf(type) == IF type = "Step" THEN 4 ELSE IF type = "Lerp" THEN 12 ELSE PadSize(type)

\* the bytes of a T: Step is {sensivity: u16, old_value: u16}; Lerp is
\* {smoothed_value: Option<f32> (4-byte tag, 4-byte payload), lerp_factor: f32}.
\* The payload of None is never written.
BytesOf(t) ==
    IF t.type = "Step"
    THEN U16Bytes(t.sensivity) \o U16Bytes(t.old_value)
    ELSE IF t.type = "Lerp"
    THEN (IF t.smoothed_value.some
          THEN <<1, 0, 0, 0>> \o F32Bytes(t.smoothed_value.v)
          ELSE <<0, 0, 0, 0, Uninit, Uninit, Uninit, Uninit>>)
         \o F32Bytes(t.lerp_factor)
    ELSE t.pad

\* the T that the first size_of::<T>() bytes of a buffer hold
ReadAs(type, data) ==
    IF type = "Step"
    THEN [type |-> "Step",
          sensivity |-> U16FromBytes(SubSeq(data, 1, 2)),
          old_value |-> U16FromBytes(SubSeq(data, 3, 4))]
    ELSE IF type = "Lerp"
    THEN [type |-> "Lerp",
          smoothed_value |-> IF data[1] = 1 THEN Some(F32FromBytes(SubSeq(data, 5, 8))) ELSE None,
          lerp_factor |-> F32FromBytes(SubSeq(data, 9, 12))]
    ELSE [type |-> type, pad |-> SubSeq(data, 1, PadSize(type))]

\* bytes b stored at the start of a buffer; a byte that is not written
\* keeps what the buffer had
Overlay(data, b) ==
    [i \in 1 .. MAX_EFFECT_SIZE |-> IF i <= Len(b) /\ b[i] # Uninit THEN b[i] ELSE data[i]]

\* ptr.write(t), and the stores (*ptr).update makes through ptr
WriteTo(data, t) == Overlay(data, BytesOf(t))

\* a capacity check that also turns away a transform of exactly the capacity
DynEffect_new_below(effect) ==
    IF SizeOf(effect.type) >= MAX_EFFECT_SIZE
    THEN [panic |-> TRUE, handle |-> [data |-> <<>>, apply_fn |-> effect.type]]
    ELSE [panic |-> FALSE,
          handle |-> [data |-> WriteTo([i \in 1 .. MAX_EFFECT_SIZE |-> Uninit], effect),
                      apply_fn |-> effect.type]]

\* DynEffect::new: [panic, handle].  The local buffer is taken to lie at an
\* address that suits T, as the handle's own buffer does beside the fn pointer.
DynEffect_new(effect) ==
    IF SizeOf(effect.type) > MAX_EFFECT_SIZE
    THEN [panic |-> TRUE, handle |-> [data |-> <<>>, apply_fn |-> effect.type]]
    ELSE [panic |-> FALSE,
          handle |-> [data |-> WriteTo([i \in 1 .. MAX_EFFECT_SIZE |-> Uninit], effect),
                      apply_fn |-> effect.type]]

\* From<T> for DynEffect (impl_into_dyn_effect!)
Into(effect) == DynEffect_new(effect).handle

\* a handle that runs the transform on a copy and leaves its buffer alone
CallStoreDropped(self, r) == [self |-> self, out |-> r.out, panic |-> r.panic]

\* what call::<T, N> leaves in the buffer and returns, r being the result
\* of (*ptr).update(input)
CallStore(self, r) ==
    [self |-> [self EXCEPT !.data = WriteTo(self.data, r.self)],
     out |-> r.out,
     panic |-> r.panic]

\* DynEffect::update through apply_fn = call::<T, MAX_EFFECT_SIZE>:
\* [self, out, panic]
DynEffect_update(self, input, oc) ==
    CallStore(self, Effect_update(ReadAs(self.apply_fn, self.data), input, oc))

\* #[derive(Clone)]: the buffer is copied byte by byte, the fn pointer as is
DynEffect_clone(self) ==
    [data |-> [i \in 1 .. MAX_EFFECT_SIZE |-> self.data[i]], apply_fn |-> self.apply_fn]

(***************************************************************************)
(* src/src/lib.rs: Axis                                                    *)
(***************************************************************************)
Axis_new(min, max, reversed) ==
    [min |-> min, max |-> max, reversed |-> reversed,
     step_filter_factor |-> 0, old_value |-> min, value |-> min]

\* a dead-zone that keeps the latest reading as its baseline while disabled
Axis_step_filter_tracks(self, value, oc) ==
    IF self.step_filter_factor = 0
    THEN [self |-> [self EXCEPT !.old_value = value], out |-> value, panic |-> FALSE]
    ELSE StepAccept(self, value,
                    StepCompare(value, self.old_value, self.step_filter_factor, oc))

\* a dead-zone that accepts only a difference above the threshold
Axis_step_filter_strict(self, value, oc) ==
    IF self.step_filter_factor = 0
    THEN [self |-> self, out |-> value, panic |-> FALSE]
    ELSE StepAccept(self, value,
                    StepCompare(value, self.old_value, self.step_filter_factor + 1, oc))

\* Axis::step_filter: [self, out, panic]
Axis_step_filter(self, value, oc) ==
    IF self.step_filter_factor = 0
    THEN [self |-> self, out |-> value, panic |-> FALSE]
    ELSE StepAccept(self, value,
                    StepCompare(value, self.old_value, self.step_filter_factor, oc))

\* u16::clamp(min, max), for min <= max
Clamp(x, lo, hi) == IF x < lo THEN lo ELSE IF x > hi THEN hi ELSE x

\* a reversal that reflects about max alone: max - value
Axis_output_ranged_unshifted(self) ==
    IF self.min > self.max THEN [out |-> 0, panic |-> TRUE]
    ELSE [out |-> Clamp(IF self.reversed
                        THEN SaturatingSub(self.max, self.value)
                        ELSE self.value,
                        self.min, self.max),
          panic |-> FALSE]

\* Axis::output_ranged: [out, panic]; clamp asserts min <= max
Axis_output_ranged(self) ==
    IF self.min > self.max THEN [out |-> 0, panic |-> TRUE]
    ELSE [out |-> Clamp(IF self.reversed
                        THEN SaturatingSub(self.max, SaturatingSub(self.value, self.min))
                        ELSE self.value,
                        self.min, self.max),
          panic |-> FALSE]

\* the chain loop of Axis::update from handle i on, v the working value:
\* [value, chain, panic, calls]; calls logs every filter.update made.
\* ChainNext is the loop body after filter.update returned r.
RECURSIVE ChainFold(_, _, _, _, _)
RECURSIVE ChainNext(_, _, _, _, _, _)
\* a loop that feeds every handle the value the first one was fed
ChainNextSameInput(v, chain, i, calls, oc, r) ==
    IF r.panic
    THEN [value |-> v, chain |-> chain, panic |-> TRUE,
          calls |-> Append(calls, [h |-> i, input |-> v, out |-> r.out, panic |-> TRUE])]
    ELSE ChainFold(v, [chain EXCEPT ![i] = r.self], i + 1,
                   Append(calls, [h |-> i, input |-> v, out |-> r.out, panic |-> FALSE]), oc)

ChainNext(v, chain, i, calls, oc, r) ==
    IF r.panic
    THEN [value |-> v, chain |-> chain, panic |-> TRUE,
          calls |-> Append(calls, [h |-> i, input |-> v, out |-> r.out, panic |-> TRUE])]
    ELSE ChainFold(r.out, [chain EXCEPT ![i] = r.self], i + 1,
                   Append(calls, [h |-> i, input |-> v, out |-> r.out, panic |-> FALSE]), oc)

ChainFold(v, chain, i, calls, oc) ==
    IF i > Len(chain) THEN [value |-> v, chain |-> chain, panic |-> FALSE, calls |-> calls]
    ELSE ChainNext(v, chain, i, calls, oc, DynEffect_update(chain[i], v, oc))

\* self.value = (the value the chain loop ends with)
AxisStore(f, c) ==
    [self |-> [f.self EXCEPT !.value = c.value], chain |-> c.chain,
     panic |-> c.panic, calls |-> c.calls, filtered |-> f.out]

\* Axis::update after step_filter returned f
AxisChain(self, f, chain, oc) ==
    IF f.panic
    THEN [self |-> self, chain |-> chain, panic |-> TRUE, calls |-> <<>>, filtered |-> 0]
    ELSE AxisStore(f, ChainFold(f.out, chain, 1, <<>>, oc))

\* Axis::update: [self, chain, panic, calls, filtered]
Axis_update(self, value, chain, oc) ==
    AxisChain(self, Axis_step_filter(self, value, oc), chain, oc)

\* a read-out that stores the clamped, oriented value back into the Axis
AxisRescaleWrites(self, range_min, scale, ranged) ==
    IF ranged.panic THEN [self |-> self, out |-> 0, panic |-> TRUE]
    ELSE [self |-> [self EXCEPT !.value = ranged.out],
          out |-> F32FloorAsU16(F32Add(F32FromU16(range_min),
                                       F32Mul(F32FromU16(ranged.out - self.min), scale))),
          panic |-> FALSE]

\* range_min as f32 + (self.output_ranged() - self.min) as f32 * scale
AxisRescale(self, range_min, scale, ranged) ==
    IF ranged.panic THEN [self |-> self, out |-> 0, panic |-> TRUE]
    ELSE [self |-> self,
          out |-> F32FloorAsU16(F32Add(F32FromU16(range_min),
                                       F32Mul(F32FromU16(ranged.out - self.min), scale))),
          panic |-> FALSE]

\* Axis::output: [self, out, panic].  The two u16 subtractions panic on
\* overflow in a build with overflow checks and wrap otherwise.
Axis_output(self, range_min, range_max, oc) ==
    IF oc /\ (~FitsU16(range_max - range_min) \/ ~FitsU16(self.max - self.min))
    THEN [self |-> self, out |-> 0, panic |-> TRUE]
    ELSE AxisRescale(self, range_min,
                     F32Div(F32FromU16(WrapU16(range_max - range_min)),
                            F32FromU16(WrapU16(self.max - self.min))),
                     Axis_output_ranged(self))

(***************************************************************************)
(* The caller: one Axis, the chain of handles it owns, and the build       *)
(***************************************************************************)
VARIABLES
    axis,             \* the Axis
    chain,            \* the caller's handles, in chain order
    direct,           \* the concrete transforms the handles were made from,
                      \* each fed directly what its handle is fed
    calls,            \* the transform calls of the latest update, in call order
    ingest,           \* the latest Axis::update call
    last,             \* the latest Axis::output call since the latest update
    updates,          \* number of update calls made
    panicked,         \* a call panicked: the caller is gone
    overflow_checks,  \* the build panics on integer overflow (debug profile)
    twin,             \* a second Axis and chain driven with the same readings
    built             \* the latest handle made: by DynEffect::new (from = 0) or
                      \* by clone of handle number from

vars == <<axis, chain, direct, calls, ingest, last, updates, panicked, overflow_checks, twin, built>>

\* bounds of the exploration: update calls per run
MaxUpdates == 2

StepMaxCalls == 3

DeadZoneMaxUpdates == 3

LerpMaxUpdates == 26

\* an f32 literal num/den, correctly rounded
F32Lit(num, den) == F32Div(F32FromU16(num), F32FromU16(den))

\* Axis::new arguments <<min, max>>
AxisRanges == { <<0, 4>>, <<0, 7>>, <<2, 9>>, <<3, 3>>, <<9, 2>> }

\* raw readings
RawInputs == { 0, 5, 7, 32768, 65535 }

\* read-out ranges <<range_min, range_max>>
OutRanges == { <<0, 4>>, <<0, 31>>, <<5, 9>>, <<0, 65535>>, <<9, 5>> }

\* dead-zone thresholds
Thresholds == { 0, 2, 40000 }

\* the transform chains the caller builds
Chains ==
    { <<>>,
      << Step_new(40000) >>,
      << Step_new(5), Lerp_new(F32Lit(1, 4)) >>,
      << Lerp_new(F32Lit(3, 10)), Step_new(2) >> }

NoIngest == [raw |-> -1, threshold |-> 0, filtered |-> 0, n |-> 0, panic |-> FALSE]

NoOutput == [range_min |-> 0, range_max |-> 0, out |-> -1]

NoTwin == [axis |-> Axis_new(0, 0, FALSE), chain |-> <<>>, panicked |-> FALSE]

NoBuilt == [type |-> "", size |-> 0, before |-> 0, panic |-> FALSE, from |-> 0]

\* let mut effects = [t1.into(), ...]
IntoAll(ts) == [i \in 1 .. Len(ts) |-> Into(ts[i])]

\* let mut axis = Axis::new(min, max, reversed); a chain is built
Init ==
    \E r \in AxisRanges, rev \in BOOLEAN, ts \in Chains, oc \in BOOLEAN :
        /\ axis = Axis_new(r[1], r[2], rev)
        /\ direct = ts
        /\ chain = IntoAll(ts)
        /\ calls = <<>>
        /\ ingest = NoIngest
        /\ last = NoOutput
        /\ updates = 0
        /\ panicked = FALSE
        /\ overflow_checks = oc
        /\ built = NoBuilt
        /\ twin = NoTwin

\* the log of one filter.update call, beside the result d of the same call
\* made on the concrete transform t itself
CallBeside(c, t, d) ==
    [h |-> c.h, input |-> c.input, out |-> c.out, panic |-> c.panic,
     t_before |-> t, t_after |-> d.self, t_out |-> d.out, t_panic |-> d.panic]

CallEntry(c, t) == CallBeside(c, t, Effect_update(t, c.input, overflow_checks))

\* axis.update(raw, effects.iter_mut())
DoUpdate(raw) ==
    \E r \in { Axis_update(axis, raw, chain, overflow_checks) } :
    \E log \in { [i \in 1 .. Len(r.calls) |-> CallEntry(r.calls[i], direct[i])] } :
       /\ axis' = r.self
       /\ chain' = r.chain
       /\ direct' = [i \in 1 .. Len(direct) |->
                        IF i <= Len(log) /\ ~log[i].t_panic THEN log[i].t_after ELSE direct[i]]
       /\ calls' = log
       /\ ingest' = [raw |-> raw, threshold |-> axis.step_filter_factor,
                     filtered |-> r.filtered, n |-> Len(chain), panic |-> r.panic]
       /\ last' = NoOutput
       /\ panicked' = r.panic
       /\ updates' = updates + 1

Update(raw) ==
    /\ ~panicked
    /\ updates < MaxUpdates
    /\ DoUpdate(raw)
    /\ UNCHANGED <<overflow_checks, twin, built>>

\* axis.output(range_min, range_max)
Output(range_min, range_max) ==
    \E r \in { Axis_output(axis, range_min, range_max, overflow_checks) } :
       /\ ~panicked
       /\ axis' = r.self
       /\ last' = [range_min |-> range_min, range_max |-> range_max,
                   out |-> IF r.panic THEN -1 ELSE r.out]
       /\ panicked' = r.panic
       /\ UNCHANGED <<chain, direct, calls, ingest, updates, overflow_checks, twin, built>>

\* axis.step_filter_factor = threshold, set before the first reading as in
\* tests::step_filter
SetStepFilterFactor(threshold) ==
    /\ ~panicked
    /\ updates = 0
    /\ axis' = [axis EXCEPT !.step_filter_factor = threshold]
    /\ last' = NoOutput
    /\ UNCHANGED <<chain, direct, calls, ingest, updates, panicked, overflow_checks, twin, built>>

Next ==
    \/ \E raw \in RawInputs : Update(raw)
    \/ \E r \in OutRanges : Output(r[1], r[2])
    \/ \E t \in Thresholds : SetStepFilterFactor(t)

Spec == Init /\ [][Next]_vars

(***************************************************************************)
(* One Step, called directly through Effect::update                        *)
(***************************************************************************)
StepSensitivities == { 0, 1, 2, 10, 32767, 32768, 40000, 65535 }

StepInputs == { 0, 1, 2, 9, 10, 32767, 32768, 32769, 65535 }

StepInit ==
    \E sens \in StepSensitivities, oc \in BOOLEAN :
        /\ axis = Axis_new(0, 0, FALSE)
        /\ direct = << Step_new(sens) >>
        /\ chain = <<>>
        /\ calls = <<>>
        /\ ingest = NoIngest
        /\ last = NoOutput
        /\ updates = 0
        /\ panicked = FALSE
        /\ overflow_checks = oc
        /\ built = NoBuilt
        /\ twin = NoTwin

\* step.update(x)
StepCall(x) ==
    \E r \in { Effect_update(direct[1], x, overflow_checks) } :
       /\ ~panicked
       /\ updates < StepMaxCalls
       /\ direct' = IF r.panic THEN direct ELSE << r.self >>
       /\ calls' = << [h |-> 1, input |-> x, out |-> r.out, panic |-> r.panic,
                       t_before |-> direct[1], t_after |-> r.self,
                       t_out |-> r.out, t_panic |-> r.panic] >>
       /\ panicked' = r.panic
       /\ updates' = updates + 1
       /\ UNCHANGED <<axis, chain, ingest, last, overflow_checks, twin, built>>

StepNext == \E x \in StepInputs : StepCall(x)

SpecStep == StepInit /\ [][StepNext]_vars

(***************************************************************************)
(* The built-in dead-zone beside a Step at the head of a chain             *)
(***************************************************************************)
DeadZoneRanges == { <<0, 128>>, <<10, 49>>, <<0, 40000>> }

DeadZoneThresholds == { 2, 10, 40000 }

DeadZoneInputs == { 0, 1, 8, 10, 11, 20, 32768, 65535 }

\* axis: step_filter_factor = t, no chain; twin: the same Axis::new with
\* the default threshold and the chain [Step::new(t).into()]
DeadZoneInit ==
    \E r \in DeadZoneRanges, rev \in BOOLEAN, t \in DeadZoneThresholds, oc \in BOOLEAN :
        /\ axis = [Axis_new(r[1], r[2], rev) EXCEPT !.step_filter_factor = t]
        /\ direct = <<>>
        /\ chain = <<>>
        /\ calls = <<>>
        /\ ingest = NoIngest
        /\ last = NoOutput
        /\ updates = 0
        /\ panicked = FALSE
        /\ overflow_checks = oc
        /\ built = NoBuilt
        /\ twin = [axis |-> Axis_new(r[1], r[2], rev),
                   chain |-> IntoAll(<< Step_new(t) >>),
                   panicked |-> FALSE]

\* both axes ingest the same reading
TwinUpdate(raw) ==
    \E t \in { Axis_update(twin.axis, raw, twin.chain, overflow_checks) } :
       /\ ~panicked
       /\ ~twin.panicked
       /\ updates < DeadZoneMaxUpdates
       /\ DoUpdate(raw)
       /\ twin' = [axis |-> t.self, chain |-> t.chain, panicked |-> t.panic]
       /\ UNCHANGED <<overflow_checks, built>>

DeadZoneNext == \E raw \in DeadZoneInputs : TwinUpdate(raw)

SpecDeadZone == DeadZoneInit /\ [][DeadZoneNext]_vars

(***************************************************************************)
(* tests::lerp_effect: Axis(0, 128) with [Lerp::new(0.5).into()], a first  *)
(* reading of 0 and then a constant reading                                *)
(***************************************************************************)
LerpTargets == 0 .. 128

LerpInit ==
    \E oc \in BOOLEAN :
        /\ axis = Axis_new(0, 128, FALSE)
        /\ direct = << Lerp_new(F32Lit(1, 2)) >>
        /\ chain = IntoAll(<< Lerp_new(F32Lit(1, 2)) >>)
        /\ calls = <<>>
        /\ ingest = NoIngest
        /\ last = NoOutput
        /\ updates = 0
        /\ panicked = FALSE
        /\ overflow_checks = oc
        /\ built = NoBuilt
        /\ twin = NoTwin

\* axis.update(0, effects.iter_mut())
LerpFirst ==
    /\ ~panicked
    /\ updates = 0
    /\ DoUpdate(0)
    /\ UNCHANGED <<overflow_checks, twin, built>>

\* axis.update(target, effects.iter_mut()), the same target every time
LerpTarget(target) ==
    /\ ~panicked
    /\ updates >= 1
    /\ updates < LerpMaxUpdates
    /\ updates > 1 => target = ingest.raw
    /\ DoUpdate(target)
    /\ UNCHANGED <<overflow_checks, twin, built>>

\* axis.output(0, 128)
LerpRead == Output(0, 128)

LerpNext ==
    \/ LerpFirst
    \/ \E target \in LerpTargets : LerpTarget(target)
    \/ LerpRead

SpecLerp == LerpInit /\ [][LerpNext]_vars

(***************************************************************************)
(* Handles: made by DynEffect::new or by clone, and called one at a time   *)
(***************************************************************************)
MaxHandles == 2

HandleMaxUpdates == 2

\* the transforms a caller wraps
NewTransforms ==
    { Step_new(2), Lerp_new(F32Lit(1, 2)),
      Pad_new("Pad0"), Pad_new("Pad16"), Pad_new("Pad17"), Pad_new("Pad32") }

HandleInputs == { 0, 7, 65535 }

HandleInit ==
    \E oc \in BOOLEAN :
        /\ axis = Axis_new(0, 0, FALSE)
        /\ direct = <<>>
        /\ chain = <<>>
        /\ calls = <<>>
        /\ ingest = NoIngest
        /\ last = NoOutput
        /\ updates = 0
        /\ panicked = FALSE
        /\ overflow_checks = oc
        /\ built = NoBuilt
        /\ twin = NoTwin

\* let h: DynEffect = t.into(); a panic leaves no handle
Wrap(t) ==
    \E r \in { DynEffect_new(t) } :
       /\ ~panicked
       /\ Len(chain) < MaxHandles
       /\ built' = [type |-> t.type, size |-> SizeOf(t.type), before |-> Len(chain),
                    panic |-> r.panic, from |-> 0]
       /\ chain' = IF r.panic THEN chain ELSE Append(chain, r.handle)
       /\ direct' = IF r.panic THEN direct ELSE Append(direct, t)
       /\ panicked' = r.panic
       /\ UNCHANGED <<axis, calls, ingest, last, updates, overflow_checks, twin>>

\* let c = handles[i].clone()
Clone(i) ==
    /\ ~panicked
    /\ i <= Len(chain)
    /\ Len(chain) < MaxHandles
    /\ built' = [type |-> chain[i].apply_fn, size |-> SizeOf(chain[i].apply_fn),
                 before |-> Len(chain), panic |-> FALSE, from |-> i]
    /\ chain' = Append(chain, DynEffect_clone(chain[i]))
    /\ direct' = Append(direct, direct[i])
    /\ UNCHANGED <<axis, calls, ingest, last, updates, panicked, overflow_checks, twin>>

\* handles that share one buffer when they hold the same bytes: the store
\* made through one shows in the others
HandleStoreShared(handles, i, r) ==
    [j \in 1 .. Len(handles) |-> IF handles[j] = handles[i] THEN r.self ELSE handles[j]]

\* handles[i] after its update call returned r: no other handle is written
HandleStore(handles, i, r) == [handles EXCEPT ![i] = r.self]

\* handles[i].update(x), beside the same call on the transform itself
HandleUpdate(i, x) ==
    /\ ~panicked
    /\ i <= Len(chain)
    /\ updates < HandleMaxUpdates
    /\ \E r \in { DynEffect_update(chain[i], x, overflow_checks) } :
       \E d \in { Effect_update(direct[i], x, overflow_checks) } :
          /\ chain' = IF r.panic THEN chain ELSE HandleStore(chain, i, r)
          /\ direct' = IF d.panic THEN direct ELSE [direct EXCEPT ![i] = d.self]
          /\ calls' = << CallBeside([h |-> i, input |-> x, out |-> r.out, panic |-> r.panic],
                                    direct[i], d) >>
          /\ panicked' = r.panic
          /\ updates' = updates + 1
          /\ UNCHANGED <<axis, ingest, last, overflow_checks, twin, built>>

HandleNext ==
    \/ \E t \in NewTransforms : Wrap(t)
    \/ \E i \in 1 .. MaxHandles : Clone(i)
    \/ \E i \in 1 .. MaxHandles, x \in HandleInputs : HandleUpdate(i, x)

SpecHandle == HandleInit /\ [][HandleNext]_vars

(***************************************************************************)
(* One fresh Lerp, called directly through Effect::update                  *)
(***************************************************************************)
SeedMaxCalls == 2

\* blend factors in [0, 1]
LerpFactors ==
    { F32Zero, F32Lit(1, 1), F32Lit(1, 2), F32Lit(3, 10), F32Lit(1, 65535), F32Lit(65534, 65535) }

SeedInputs == { 0, 1, 100, 32768, 65535 }

SeedInit ==
    \E f \in LerpFactors, oc \in BOOLEAN :
        /\ axis = Axis_new(0, 0, FALSE)
        /\ direct = << Lerp_new(f) >>
        /\ chain = <<>>
        /\ calls = <<>>
        /\ ingest = NoIngest
        /\ last = NoOutput
        /\ updates = 0
        /\ panicked = FALSE
        /\ overflow_checks = oc
        /\ built = NoBuilt
        /\ twin = NoTwin

\* lerp.update(x); calls keeps every call made
LerpCall(x) ==
    \E r \in { Effect_update(direct[1], x, overflow_checks) } :
       /\ updates < SeedMaxCalls
       /\ direct' = << r.self >>
       /\ calls' = Append(calls, [h |-> 1, input |-> x, out |-> r.out, panic |-> r.panic,
                                  t_before |-> direct[1], t_after |-> r.self,
                                  t_out |-> r.out, t_panic |-> r.panic])
       /\ updates' = updates + 1
       /\ UNCHANGED <<axis, chain, ingest, last, panicked, overflow_checks, twin, built>>

SeedNext == \E x \in SeedInputs : LerpCall(x)

SpecSeed == SeedInit /\ [][SeedNext]_vars

(***************************************************************************)
(* The dead-zone threshold assigned between updates.  twin is the same     *)
(* Axis without a chain, fed only the readings that arrive while the       *)
(* threshold is nonzero                                                    *)
(***************************************************************************)
ThresholdMaxUpdates == 3

ThresholdRanges == { <<0, 128>>, <<10, 49>> }

ThresholdInputs == { 0, 3, 10, 11, 20 }

ThresholdValues == { 0, 2, 10 }

ThresholdChains == { <<>>, << Lerp_new(F32Lit(1, 2)) >> }

ThresholdInit ==
    \E r \in ThresholdRanges, ts \in ThresholdChains, oc \in BOOLEAN :
        /\ axis = Axis_new(r[1], r[2], FALSE)
        /\ direct = ts
        /\ chain = IntoAll(ts)
        /\ calls = <<>>
        /\ ingest = NoIngest
        /\ last = NoOutput
        /\ updates = 0
        /\ panicked = FALSE
        /\ overflow_checks = oc
        /\ built = NoBuilt
        /\ twin = [axis |-> Axis_new(r[1], r[2], FALSE), chain |-> <<>>, panicked |-> FALSE]

\* axis.step_filter_factor = threshold, at any time
AssignStepFilterFactor(threshold) ==
    /\ ~panicked
    /\ axis' = [axis EXCEPT !.step_filter_factor = threshold]
    /\ UNCHANGED <<chain, direct, calls, ingest, last, updates, panicked, overflow_checks,
                   twin, built>>

\* axis.update(raw, effects.iter_mut()); twin takes the reading only under
\* a nonzero threshold
ThresholdUpdate(raw) ==
    \E t \in { IF axis.step_filter_factor = 0
                THEN [self |-> twin.axis, chain |-> twin.chain, panic |-> twin.panicked]
                ELSE Axis_update([twin.axis EXCEPT
                                     !.step_filter_factor = axis.step_filter_factor],
                                 raw, twin.chain, overflow_checks) } :
       /\ ~panicked
       /\ updates < ThresholdMaxUpdates
       /\ DoUpdate(raw)
       /\ twin' = [axis |-> t.self, chain |-> t.chain, panicked |-> t.panic]
       /\ UNCHANGED <<overflow_checks, built>>

ThresholdNext ==
    \/ \E t \in ThresholdValues : AssignStepFilterFactor(t)
    \/ \E raw \in ThresholdInputs : ThresholdUpdate(raw)

SpecThreshold == ThresholdInit /\ [][ThresholdNext]_vars

(***************************************************************************)
(* Properties                                                              *)
(***************************************************************************)
AbsDiff(a, b) == IF a >= b THEN a - b ELSE b - a

CeilDiv(a, b) == (a + b - 1) \div b

\* an output call returned since the latest update
Returned == last.out # -1

\* C1: identity chain law.  After update(r, empty chain) on an Axis with
\* min < max, reversed = false and threshold 0, output(range_min, range_max)
\* with range_min <= range_max is
\* floor(range_min + (clamp(r, min, max) - min) * (range_max - range_min) / (max - min)).
C1_IdentityChainLaw ==
    (/\ Returned
     /\ ingest.raw # -1
     /\ ingest.n = 0
     /\ ingest.threshold = 0
     /\ axis.min < axis.max
     /\ ~axis.reversed
     /\ last.range_min <= last.range_max)
    => last.out = last.range_min
                  + ((Clamp(ingest.raw, axis.min, axis.max) - axis.min)
                     * (last.range_max - last.range_min)) \div (axis.max - axis.min)

\* C2: on an Axis with min <= max, after any updates, output(range_min,
\* range_max) with range_min <= range_max returns a value within
\* [range_min, range_max].
C2_OutputInRange ==
    (Returned /\ axis.min <= axis.max /\ last.range_min <= last.range_max)
    => (last.range_min <= last.out /\ last.out <= last.range_max)

\* C3: Step accept rule.  If the true absolute difference |x - a| between
\* the input and the last accepted value is at least the sensitivity, then
\* Step.update(x) returns x and x becomes the last accepted value.
C3_StepAcceptRule ==
    \A i \in 1 .. Len(calls) :
        (/\ calls[i].t_before.type = "Step"
         /\ AbsDiff(calls[i].input, calls[i].t_before.old_value) >= calls[i].t_before.sensivity)
        => (/\ ~calls[i].t_panic
            /\ calls[i].t_out = calls[i].input
            /\ calls[i].t_after.old_value = calls[i].input)

\* C4: Step suppression.  A call whose input is closer than the
\* sensitivity to the last accepted value returns that value and leaves it
\* in place; the returned value differs from it only when |x - a| >= S.
C4_StepSuppression ==
    \A i \in 1 .. Len(calls) :
        (calls[i].t_before.type = "Step" /\ ~calls[i].t_panic)
        => (/\ AbsDiff(calls[i].input, calls[i].t_before.old_value) < calls[i].t_before.sensivity
               => (/\ calls[i].t_out = calls[i].t_before.old_value
                   /\ calls[i].t_after.old_value = calls[i].t_before.old_value)
            /\ calls[i].t_out # calls[i].t_before.old_value
               => AbsDiff(calls[i].input, calls[i].t_before.old_value) >= calls[i].t_before.sensivity)

\* the two axes of SpecDeadZone agree: both calls returned or both
\* panicked, and after a return the working values and every read-out agree
TwinAgrees ==
    /\ panicked = twin.panicked
    /\ ~panicked =>
          /\ axis.value = twin.axis.value
          /\ \A r \in OutRanges :
                Axis_output(axis, r[1], r[2], overflow_checks).out
                    = Axis_output(twin.axis, r[1], r[2], overflow_checks).out

\* C5 as stated: for every Axis(min, max) and nonzero threshold S, the Axis
\* with step_filter_factor = S and no chain has, after each update, the
\* working value and output of the same Axis with threshold 0 and the
\* chain [Step::new(S)].
C5_DeadZoneIsStep == TwinAgrees

\* C5 amended: the same, for an Axis with min = 0.
C5_DeadZoneIsStepFromZero == axis.min = 0 => TwinAgrees

\* C5 witness: on an Axis with min = 0 both filters accepted a reading and
\* then rejected the next one
C5_Witness ==
    /\ twin.chain # <<>>
    /\ axis.min = 0
    /\ updates >= 2
    /\ ~panicked
    /\ axis.value # 0
    /\ ingest.raw # axis.value
    /\ twin.axis.value = axis.value

\* C6: chain fold order.  One update calls each handle once, in chain
\* order, the first with the dead-zone-filtered reading (the reading
\* itself when the threshold is 0) and each next one with what the one
\* before returned; the working value is what the last one returned (the
\* filtered reading for an empty chain).
C6_ChainFoldOrder ==
    (ingest.raw # -1 /\ ~ingest.panic)
    => (/\ ingest.threshold = 0 => ingest.filtered = ingest.raw
        /\ Len(calls) = Len(chain)
        /\ \A i \in 1 .. Len(calls) :
              /\ calls[i].h = i
              /\ calls[i].input = IF i = 1 THEN ingest.filtered ELSE calls[i - 1].out
        /\ axis.value = IF calls = <<>> THEN ingest.filtered ELSE calls[Len(calls)].out)

\* C6 witness: a two-handle chain ran and its stages returned different values
C6_Witness ==
    /\ Len(calls) = 2
    /\ ~panicked
    /\ calls[1].out # calls[1].input
    /\ calls[2].out # calls[2].input
    /\ axis.value = calls[2].out

\* C7: erased-handle transparency.  Every handle call returns what the
\* wrapped transform itself returns on the same input, and the handle's
\* buffer holds the transform's state after every call.
C7_HandleTransparent ==
    /\ \A i \in 1 .. Len(calls) :
          /\ calls[i].panic = calls[i].t_panic
          /\ ~calls[i].panic => calls[i].out = calls[i].t_out
    /\ \A i \in 1 .. Len(chain) : ReadAs(chain[i].apply_fn, chain[i].data) = direct[i]

\* C7 witness: after two updates a wrapped Lerp holds a smoothed value that
\* is no integer and a wrapped Step holds an accepted reading
C7_Witness ==
    /\ updates = 2
    /\ ~panicked
    /\ \E i \in 1 .. Len(chain) :
          /\ direct[i].type = "Lerp"
          /\ direct[i].smoothed_value.some
          /\ direct[i].smoothed_value.v.e < 0
          /\ direct[i].smoothed_value.v.e > -24
          /\ direct[i].smoothed_value.v.m % Pow2(-direct[i].smoothed_value.v.e) # 0
    /\ \E i \in 1 .. Len(chain) :
          /\ direct[i].type = "Step"
          /\ direct[i].old_value # 0

\* floor(T * (1 - (1/2)^n)) for n <= 30
LerpExpected(target, n) == target - CeilDiv(target, Pow2(n))

\* C8 as stated: after the first update with 0 and n >= 1 updates with the
\* constant T, output(0, 128) is floor(T * (1 - (1/2)^n)).
C8_LerpConvergence ==
    (Returned /\ updates >= 2 /\ updates <= 31)
    => last.out = LerpExpected(ingest.raw, updates - 1)

\* C8 amended: the same for 1 <= n <= 23; the output after the first update
\* is 0.
C8_LerpConvergenceTo23 ==
    /\ (Returned /\ updates = 1) => last.out = 0
    /\ (Returned /\ updates >= 2 /\ updates - 1 <= 23)
       => last.out = LerpExpected(ingest.raw, updates - 1)

\* C8 witness: T = 100 read out as 93 after the fourth update with 100
C8_Witness ==
    /\ Returned
    /\ chain # <<>>
    /\ updates = 5
    /\ ingest.raw = 100
    /\ last.out = 93

\* C9: reflection law.  For min < max and min <= v <= max, a reversed Axis
\* holding v reads out what a non-reversed Axis with the same min and max
\* holding max - (v - min) reads out, for every range_min <= range_max.
C9_ReflectionLaw ==
    (axis.min < axis.max /\ axis.min <= axis.value /\ axis.value <= axis.max)
    => \A r \in OutRanges :
          r[1] <= r[2]
          => Axis_output([axis EXCEPT !.reversed = TRUE], r[1], r[2], overflow_checks).out
             = Axis_output([axis EXCEPT !.reversed = FALSE,
                                        !.value = axis.max - (axis.value - axis.min)],
                           r[1], r[2], overflow_checks).out

\* C9 witness: a reversed Axis holding a value strictly inside (min, max),
\* off the midpoint, was read out
C9_Witness ==
    /\ Returned
    /\ axis.reversed
    /\ axis.min < axis.value
    /\ axis.value < axis.max
    /\ axis.max - (axis.value - axis.min) # axis.value
    /\ last.out # last.range_min
    /\ last.out # last.range_max

\* C10: read-out is pure.  An output call changes no Axis field and no
\* transform state, and what it returned is what the same call returns
\* again in the state it leaves.
C10_OutputPure ==
    [][(\E r \in OutRanges : Output(r[1], r[2]))
       => (/\ axis' = axis
           /\ chain' = chain
           /\ direct' = direct
           /\ Returned' =>
                 last'.out = Axis_output(axis', last'.range_min, last'.range_max,
                                         overflow_checks).out)]_vars

\* C10 witness: a reversed Axis off its minimum was read out after an update
C10_Witness ==
    /\ Returned
    /\ updates >= 1
    /\ chain # <<>>
    /\ axis.reversed
    /\ axis.value > axis.min
    /\ last.out > last.range_min

\* C11: capacity check.  DynEffect::new panics exactly when the transform's
\* size is above MAX_EFFECT_SIZE; a panic leaves no handle behind; a
\* transform of size <= MAX_EFFECT_SIZE (16 included, Step and Lerp
\* included) gets a complete handle, and an update call through a handle
\* fails only where the transform's own update fails.
C11_CapacityCheck ==
    /\ built.type # "" => (built.panic <=> built.size > MAX_EFFECT_SIZE)
    /\ built.panic => (panicked /\ Len(chain) = built.before)
    /\ (built.type # "" /\ ~built.panic)
       => (Len(chain) > built.before /\ chain[built.before + 1].apply_fn = built.type)
    /\ \A i \in 1 .. Len(chain) :
          /\ SizeOf(chain[i].apply_fn) <= MAX_EFFECT_SIZE
          /\ Len(chain[i].data) = MAX_EFFECT_SIZE
          /\ ReadAs(chain[i].apply_fn, chain[i].data) = direct[i]
    /\ \A i \in 1 .. Len(calls) : calls[i].panic => calls[i].t_panic

\* C11 witness: a transform of exactly 16 bytes was wrapped and its handle
\* called, beside a Lerp wrapped and called before it
C11_Witness ==
    /\ Len(chain) = 2
    /\ chain[1].apply_fn = "Lerp"
    /\ direct[1].smoothed_value.some
    /\ chain[2].apply_fn = "Pad16"
    /\ built.from = 0
    /\ calls # <<>>
    /\ calls[1].h = 2
    /\ calls[1].out = 65535

\* C12: no numeric edge case is an error.  For every 16-bit min, max,
\* reading, threshold, range_min and range_max, the calls Axis.update,
\* Step.update and Axis.output return: none of them panics.
C12_NoNumericError == ~panicked /\ \A i \in 1 .. Len(calls) : ~calls[i].panic

\* C13: Axis range invariant.  Every Axis reached through Axis::new and any
\* updates and read-outs has min <= max.
C13_RangeInvariant == axis.min <= axis.max

\* C14: Lerp first-sample seeding.  For a blend factor in [0, 1], the
\* first update(x) of a fresh Lerp returns x and leaves the smoothed value
\* equal to x, and a second update(x) returns x again.
C14_LerpSeeding ==
    /\ Len(calls) >= 1 =>
          /\ ~calls[1].t_before.smoothed_value.some
          /\ calls[1].t_out = calls[1].input
          /\ calls[1].t_after.smoothed_value = Some(F32FromU16(calls[1].input))
    /\ (Len(calls) >= 2 /\ calls[2].input = calls[1].input) =>
          /\ calls[2].t_out = calls[1].input
          /\ calls[2].t_after.smoothed_value = Some(F32FromU16(calls[1].input))

\* C14 witness: a Lerp with factor 0.3 was fed 100 twice
C14_Witness ==
    /\ Len(calls) = 2
    /\ direct[1].lerp_factor = F32Lit(3, 10)
    /\ calls[1].input = 100
    /\ calls[2].input = 100
    /\ calls[2].t_out = 100

\* C15: disabled dead-zone.  An update under threshold 0 hands the reading
\* unchanged to the first chain stage and leaves old_value as it was: the
\* baseline is that of an Axis that never saw the readings taken under
\* threshold 0 (min for a fresh Axis), and an update under a nonzero
\* threshold is compared against that baseline.
C15_DisabledDeadZone ==
    /\ axis.old_value = twin.axis.old_value
    /\ (ingest.raw # -1 /\ ingest.threshold = 0 /\ ~ingest.panic)
       => (/\ ingest.filtered = ingest.raw
           /\ calls # <<>> => calls[1].input = ingest.raw
           /\ chain = <<>> => axis.value = ingest.raw)
    /\ (ingest.raw # -1 /\ ingest.threshold # 0 /\ ~ingest.panic)
       => ingest.filtered = twin.axis.value
    /\ twin.axis.value = axis.min => axis.old_value = axis.min

\* C15 witness: the threshold was set to a nonzero value after a reading
\* taken under threshold 0 had moved the working value off min; the
\* baseline is still min
C15_Witness ==
    /\ chain = <<>>
    /\ updates >= 1
    /\ ~panicked
    /\ axis.step_filter_factor # 0
    /\ ingest.threshold = 0
    /\ axis.value = ingest.raw
    /\ axis.value # axis.min
    /\ axis.old_value = axis.min

\* C16: handle independence.  A clone holds its own copy of the wrapped
\* transform's state, taken when it is made; an update call on one handle
\* leaves every other handle, a clone or its origin included, with the
\* state and the future outputs it had.
C16_HandleIndependence ==
    [][/\ \A i \in 1 .. MaxHandles :
             Clone(i) =>
                /\ Len(chain') = Len(chain) + 1
                /\ \A j \in 1 .. Len(chain) : chain'[j] = chain[j]
                /\ ReadAs(chain'[Len(chain')].apply_fn, chain'[Len(chain')].data)
                      = ReadAs(chain[i].apply_fn, chain[i].data)
       /\ \A i \in 1 .. MaxHandles, x \in HandleInputs :
             HandleUpdate(i, x) =>
                \A j \in 1 .. Len(chain) :
                   j # i =>
                      /\ chain'[j] = chain[j]
                      /\ \A y \in HandleInputs :
                            DynEffect_update(chain'[j], y, overflow_checks).out
                               = DynEffect_update(chain[j], y, overflow_checks).out]_vars

\* C16 witness: a Lerp handle and its clone hold different states after an
\* update call on one of them
C16_Witness ==
    /\ Len(chain) = 2
    /\ built.from = 1
    /\ built.before = 1
    /\ chain[1].apply_fn = "Lerp"
    /\ calls # <<>>
    /\ ~panicked
    /\ ReadAs(chain[1].apply_fn, chain[1].data) # ReadAs(chain[2].apply_fn, chain[2].data)

\* working values held up against each other, in ascending order
WorkingValues == << 0, 1, 2, 3, 4, 5, 6, 7, 8, 9, 10, 32768, 65535 >>

\* what output(r[1], r[2]) returns on the Axis when it holds v
OutputAt(v, r) == Axis_output([axis EXCEPT !.value = v], r[1], r[2], overflow_checks).out

\* C17: read-out monotonicity.  For min < max and range_min <= range_max,
\* output(range_min, range_max) does not decrease as the working value
\* grows (does not increase on a reversed Axis); a working value <= min
\* reads range_min and one >= max reads range_max (the other way round on a
\* reversed Axis).
C17_OutputMonotone ==
    axis.min < axis.max =>
       \A r \in OutRanges :
          r[1] <= r[2] =>
             /\ \A k \in 1 .. Len(WorkingValues) - 1 :
                   IF axis.reversed
                   THEN OutputAt(WorkingValues[k], r) >= OutputAt(WorkingValues[k + 1], r)
                   ELSE OutputAt(WorkingValues[k], r) <= OutputAt(WorkingValues[k + 1], r)
             /\ \A k \in 1 .. Len(WorkingValues) :
                   /\ WorkingValues[k] <= axis.min
                      => OutputAt(WorkingValues[k], r) = IF axis.reversed THEN r[2] ELSE r[1]
                   /\ WorkingValues[k] >= axis.max
                      => OutputAt(WorkingValues[k], r) = IF axis.reversed THEN r[1] ELSE r[2]

====
